---- MODULE Spec2Model ----
(***************************************************************************)
(* The telemetry layer of server.js: the sanitizing addLog, the two        *)
(* bounded newest-first log arrays, the periodic updateSystemStats sampler *)
(* with its threshold alert, the nine relay lifecycle handlers and the     *)
(* HTTP accessors over them.                                               *)
(*                                                                         *)
(* Node runs every callback to completion, so one action is one callback   *)
(* (or, for the async updateSystemStats, one stretch between two awaits).  *)
(*                                                                         *)
(* Numbers: percentages and GiB/MiB values are held in hundredths (the     *)
(* code rounds to two decimals); provider inputs are held in the finer     *)
(* units named at each input set.  new Date() is a logical clock, `now`,   *)
(* that advances on every read, so a timestamp names the read it came      *)
(* from.                                                                   *)
(***************************************************************************)
EXTENDS Integers, Sequences, FiniteSets, TLC

VARIABLES
    connectionLogs,    \* const connectionLogs = []          (newest first)
    performanceLogs,   \* const performanceLogs = []         (newest first)
    systemStats,       \* let systemStats = {...}
    booted,            \* the module's top-level code has run to its end
    inflight,          \* the updateSystemStats invocations suspended at an await
    now,               \* the logical clock behind new Date()
    raised,            \* a lifecycle handler threw into the relay's emit
    timers,            \* firings of the setInterval timer so far
    events,            \* lifecycle events delivered so far
    clears,            \* DELETE /api/logs requests served so far
    connHistory,       \* history: entries unshifted onto connectionLogs since it was last empty
    perfHistory,       \* history: entries unshifted onto performanceLogs since it was empty
    alertsThisPeriod,  \* history: high_usage entries appended since the timer last fired
    publishedBy        \* history: the invocation whose snapshot systemStats holds (0: none)

vars == <<connectionLogs, performanceLogs, systemStats, booted, inflight, now,
          raised, timers, events, clears, connHistory, perfHistory,
          alertsThisPeriod, publishedBy>>

(***************************************************************************)
(* Bounds of the model.                                                    *)
(***************************************************************************)
MaxEvents == 1       \* lifecycle events delivered in the observed window
MaxTimers == 1       \* timer firings in the observed window
MaxInFlight == 2     \* updateSystemStats invocations suspended at once
MaxClears == 1       \* DELETE /api/logs requests in the observed window
WarmCycles == 100    \* WarmInit: high-usage sampling cycles already completed
WarmEvents == 48     \* WarmInit: lifecycle events already handled since the clear
SoakTimers == 102    \* SoakSpec: timer firings
SoakInFlight == 1    \* SoakSpec: invocations suspended at once
SanitizeEvents == 1  \* SanitizeSpec: lifecycle events delivered
LiveTimers == 2      \* LiveSpec: timer firings; queries may fail in all but the last cycle

(***************************************************************************)
(* Program constants.                                                      *)
(***************************************************************************)
maxLogEntries == 50
maxPerformanceLogs == 100
cpuThreshold == 80
memoryThreshold == 85

Min(a, b) == IF a < b THEN a ELSE b

(***************************************************************************)
(* JavaScript values.  A value is [t, v, f]: its type tag, its text when   *)
(* it is a primitive, and its own properties (key, value) in insertion     *)
(* order when it is an object or an array.  An object reached through a    *)
(* property is held by reference in the code: whatever graph hangs off it, *)
(* cycles included, is retained with it, which the model shows as the      *)
(* nested value.                                                           *)
(***************************************************************************)
Undefined == [t |-> "undefined", v |-> "", f |-> <<>>]
JSNull == [t |-> "null", v |-> "", f |-> <<>>]
Str(s) == [t |-> "string", v |-> s, f |-> <<>>]
Num(s) == [t |-> "number", v |-> s, f |-> <<>>]
Bool(s) == [t |-> "boolean", v |-> s, f |-> <<>>]
Fun == [t |-> "function", v |-> "", f |-> <<>>]
Obj(fields) == [t |-> "object", v |-> "", f |-> fields]
Arr(fields) == [t |-> "array", v |-> "", f |-> fields]

\* typeof x
TypeOf(x) ==
    CASE x.t \in {"null", "array", "object"} -> "object"
      [] OTHER -> x.t

\* the truthiness of x in `if (x)`, `x && ...`, `!x`
Truthy(x) ==
    CASE x.t \in {"undefined", "null"} -> FALSE
      [] x.t = "string" -> x.v # ""
      [] x.t = "number" -> x.v \notin {"0", "NaN"}
      [] x.t = "boolean" -> x.v = "true"
      [] OTHER -> TRUE

\* x.k can be evaluated: reading a property of undefined or null throws TypeError
CanRead(x) == x.t \notin {"undefined", "null"}

HasKey(o, k) == \E i \in 1..Len(o.f) : o.f[i][1] = k

\* o.k (undefined when o has no such own property)
Get(o, k) ==
    IF HasKey(o, k)
    THEN o.f[CHOOSE i \in 1..Len(o.f) : o.f[i][1] = k][2]
    ELSE Undefined

\* o.k = x
Put(o, k, x) ==
    IF HasKey(o, k)
    THEN [o EXCEPT !.f = [i \in 1..Len(o.f) |->
                            IF o.f[i][1] = k THEN <<k, x>> ELSE o.f[i]]]
    ELSE [o EXCEPT !.f = Append(o.f, <<k, x>>)]

\* Object.keys(o)
Keys(o) == [i \in 1..Len(o.f) |-> o.f[i][1]]

(***************************************************************************)
(* addLog, the sanitizer (lines 78-102).                                   *)
(***************************************************************************)
\* if (data.id) sanitizedData.id = typeof data.id === 'string' ? data.id : '[object]'
SanitizeId(san, data) ==
    IF Truthy(Get(data, "id"))
    THEN Put(san, "id", IF TypeOf(Get(data, "id")) = "string"
                        THEN Get(data, "id") ELSE Str("[object]"))
    ELSE san

\* if (data.streamPath) sanitizedData.streamPath = data.streamPath
SanitizeStreamPath(san, data) ==
    IF Truthy(Get(data, "streamPath"))
    THEN Put(san, "streamPath", Get(data, "streamPath"))
    ELSE san

ArgsGuard_NoNullCheck(data) == TypeOf(Get(data, "args")) = "object"

\* data.args && typeof data.args === 'object'
ArgsGuard(data) ==
    Truthy(Get(data, "args")) /\ TypeOf(Get(data, "args")) = "object"

SanitizeArgs_WholeArgs(san, data) ==
    IF ArgsGuard(data) THEN Put(san, "args", Get(data, "args")) ELSE san

\* sanitizedData.args = { app: data.args.app, tcUrl: data.args.tcUrl, type: data.args.type }
SanitizeArgs(san, data) ==
    IF ArgsGuard(data)
    THEN Put(san, "args",
             Obj(<< <<"app", Get(Get(data, "args"), "app")>>,
                    <<"tcUrl", Get(Get(data, "args"), "tcUrl")>>,
                    <<"type", Get(Get(data, "args"), "type")>> >>))
    ELSE san

\* the body of the forEach callback, for one key
CopySafeKey(san, data, key) ==
    IF /\ ~Truthy(Get(san, key))
       /\ TypeOf(Get(data, key)) # "object"
       /\ TypeOf(Get(data, key)) # "function"
    THEN Put(san, key, Get(data, key))
    ELSE san

\* Object.keys(data).forEach(...), over keys[i..]
RECURSIVE CopySafe(_, _, _, _)
CopySafe(san, data, keys, i) ==
    IF i > Len(keys) THEN san
    ELSE CopySafe(CopySafeKey(san, data, keys[i]), data, keys, i + 1)

\* the sanitizer throws: the args block reads a property of null or undefined
SanitizeThrows(data) == ArgsGuard(data) /\ ~CanRead(Get(data, "args"))

\* sanitizedData as addLog leaves it
Sanitize(data) ==
    CopySafe(SanitizeArgs(SanitizeStreamPath(SanitizeId(Obj(<<>>), data), data), data),
             data, Keys(data), 1)

(***************************************************************************)
(* The two stores.                                                         *)
(***************************************************************************)
\* arr.unshift(e)
Unshift(arr, e) == <<e>> \o arr

Splice_KeepsOldest(arr, start) ==
    SubSeq(arr, Len(arr) - Min(start, Len(arr)) + 1, Len(arr))

\* arr.splice(start): drops everything from index start on
Splice(arr, start) == SubSeq(arr, 1, Min(start, Len(arr)))

LogEntry(t, type, message, data) ==
    [timestamp |-> t, type |-> type, message |-> message, data |-> data]

StoreLog_NoEvict(logs, entry) == Unshift(logs, entry)

StoreLog_EvictNewest(logs, entry) ==
    IF Len(logs) >= maxLogEntries THEN logs ELSE Unshift(logs, entry)

\* connectionLogs.unshift(logEntry); if (length > maxLogEntries) splice(maxLogEntries)
StoreLog(logs, entry) ==
    IF Len(Unshift(logs, entry)) > maxLogEntries
    THEN Splice(Unshift(logs, entry), maxLogEntries)
    ELSE Unshift(logs, entry)

\* connectionLogs after addLog(type, message, data) called at clock t
addLog(logs, t, type, message, data) ==
    StoreLog(logs, LogEntry(t, type, message, Sanitize(data)))

PerformanceEntry(t, type, data) == [timestamp |-> t, type |-> type, data |-> data]

\* performanceLogs after addPerformanceLog(type, data) called at clock t
addPerformanceLog(logs, t, type, data) ==
    IF Len(Unshift(logs, PerformanceEntry(t, type, data))) > maxPerformanceLogs
    THEN Splice(Unshift(logs, PerformanceEntry(t, type, data)), maxPerformanceLogs)
    ELSE Unshift(logs, PerformanceEntry(t, type, data))

(***************************************************************************)
(* updateSystemStats (lines 136-194).                                      *)
(***************************************************************************)
\* Math.round(n / d) for n >= 0, d > 0
Round(n, d) == (2 * n + d) \div (2 * d)

\* a provider reported null
NullTemp == -1

\* cpuTemp.main || 0
TempOrZero(main) == IF main = NullTemp THEN 0 ELSE main

activeStreams_OneOpen == <<"/live/cam1">>

\* Object.keys({}) at line 152
activeStreams == <<>>

InitStats ==
    [cpu |-> [usage |-> 0, temp |-> 0],
     memory |-> [used |-> 0, total |-> 0, percent |-> 0],
     network |-> [rx |-> 0, tx |-> 0],
     disk |-> [used |-> 0, total |-> 0, percent |-> 0],
     streams |-> [active |-> 0, viewers |-> 0],
     timestamp |-> -1]

\* The object literal of lines 154-178, its timestamp read at clock t.
\* cpuData.currentLoad is in thousandths of a percent, byte counts are in MiB,
\* byte rates in KiB/s, diskData[0].use in thousandths of a percent; every
\* result is in hundredths.
MakeStats(cpuData, cpuTemp, memData, networkData, diskData, t) ==
    [cpu |-> [usage |-> Round(cpuData.currentLoad, 10),
              temp |-> TempOrZero(cpuTemp.main)],
     memory |-> [used |-> Round(memData.used * 100, 1024),
                 total |-> Round(memData.total * 100, 1024),
                 percent |-> Round(memData.used * 100 * 100, memData.total)],
     network |-> [rx |-> IF Len(networkData) > 0
                         THEN Round(networkData[1].rx_sec * 100, 1024) ELSE 0,
                  tx |-> IF Len(networkData) > 0
                         THEN Round(networkData[1].tx_sec * 100, 1024) ELSE 0],
     disk |-> [used |-> IF Len(diskData) > 0
                        THEN Round(diskData[1].used * 100, 1024) ELSE 0,
               total |-> IF Len(diskData) > 0
                         THEN Round(diskData[1].size * 100, 1024) ELSE 0,
               percent |-> IF Len(diskData) > 0
                           THEN Round(diskData[1].use, 10) ELSE 0],
     streams |-> [active |-> Len(activeStreams), viewers |-> 0],
     timestamp |-> t]

HighUsage_AtThreshold(stats) ==
    stats.cpu.usage >= cpuThreshold * 100 \/ stats.memory.percent >= memoryThreshold * 100

\* systemStats.cpu.usage > 80 || systemStats.memory.percent > 85
HighUsage(stats) ==
    stats.cpu.usage > cpuThreshold * 100 \/ stats.memory.percent > memoryThreshold * 100

AlertData_WholePercent(stats) ==
    [cpu |-> (stats.cpu.usage \div 100) * 100,
     memory |-> (stats.memory.percent \div 100) * 100,
     streams |-> stats.streams.active]

\* the data of the high_usage entry (lines 182-186)
AlertData(stats) ==
    [cpu |-> stats.cpu.usage, memory |-> stats.memory.percent,
     streams |-> stats.streams.active]

\* the message of line 188
AlertMessage(stats) ==
    "High resource usage detected - CPU: " \o ToString(stats.cpu.usage)
        \o "%, Memory: " \o ToString(stats.memory.percent) \o "%"

StatsAfterQuery_FieldByField(stats, got, t) ==
    IF Len(got) = 5
    THEN MakeStats(got[1], got[2], got[3], got[4], got[5], t)
    ELSE IF Len(got) = 1
         THEN [stats EXCEPT !.cpu.usage = Round(got[1].currentLoad, 10)]
         ELSE stats

\* systemStats when the invocation resumes from its k-th await with all of
\* cpuData..diskData in got (k = Len(got)); only the fifth resumption assigns
StatsAfterQuery(stats, got, t) ==
    IF Len(got) = 5
    THEN MakeStats(got[1], got[2], got[3], got[4], got[5], t)
    ELSE stats

StatsAfterFailure_Reset(stats) == InitStats

\* systemStats after the catch block of lines 191-193
StatsAfterFailure(stats) == stats

(***************************************************************************)
(* What the callbacks are called with.                                     *)
(***************************************************************************)
ConnectEvents == {"preConnect", "postConnect", "doneConnect"}
PublishEvents == {"prePublish", "postPublish", "donePublish"}
PlayEvents == {"prePlay", "postPlay", "donePlay"}
LifecycleEvents == ConnectEvents \cup PublishEvents \cup PlayEvents

EventType_AllConnection(ev) == "connection"

\* the first argument each handler gives addLog
EventType(ev) ==
    CASE ev \in ConnectEvents -> "connection"
      [] ev \in PublishEvents -> "stream"
      [] OTHER -> "viewer"

\* the second argument each handler gives addLog
EventMessage(ev) ==
    CASE ev = "preConnect" -> "Client attempting to connect"
      [] ev = "postConnect" -> "Client connected successfully"
      [] ev = "doneConnect" -> "Client disconnected"
      [] ev = "prePublish" -> "Starting to publish stream"
      [] ev = "postPublish" -> "Stream published successfully"
      [] ev = "donePublish" -> "Stream ended"
      [] ev = "prePlay" -> "Viewer requesting stream"
      [] ev = "postPlay" -> "Viewer started watching"
      [] OTHER -> "Viewer stopped watching"

\* the third argument: { id, args } or { id, streamPath: StreamPath, args }
EventData(ev, id, streamPath, args) ==
    IF ev \in ConnectEvents
    THEN Obj(<< <<"id", id>>, <<"args", args>> >>)
    ELSE Obj(<< <<"id", id>>, <<"streamPath", streamPath>>, <<"args", args>> >>)

\* the data of the startup log (lines 314-320), with the defaults of lines 26-29
StartupData ==
    Obj(<< <<"rtmpPort", Num("1935")>>, <<"httpApiPort", Num("8000")>>,
           <<"webPort", Num("8080")>>, <<"serverIP", Str("192.168.1.10")>>,
           <<"streamKey", Str("blueiris_cam1")>> >>)

\* a well-formed relay payload, and the one of the spec's end-to-end scenario
PlainArgs ==
    Obj(<< <<"app", Str("live")>>, <<"tcUrl", Str("rtmp://h/live")>>,
           <<"type", Str("live")>>,
           <<"extra", Obj(<< <<"nested", Bool("true")>> >>)>> >>)

\* an object whose graph leads back to itself: o.self = o
Nested == Obj(<< <<"self", Obj(<< <<"self", Obj(<<>>)>> >>)>> >>)

IdShapes ==
    {Str("abc123"), Str(""), Num("0"), Num("42"), Bool("false"), JSNull,
     Undefined, Nested, Arr(<< <<"0", Str("a")>> >>), Fun}

StreamPathShapes ==
    {Str("/live/cam1"), Undefined, JSNull, Num("7"), Nested,
     Arr(<< <<"0", Str("a")>> >>), Fun}

ArgsShapes ==
    {PlainArgs, Undefined, JSNull, Str("live"), Num("0"), Obj(<<>>),
     Arr(<< <<"0", Str("a")>> >>), Fun,
     Obj(<< <<"app", Nested>>, <<"tcUrl", Fun>>, <<"type", Arr(<<>>)>> >>)}

\* every shape of each argument against well-formed others, and the three
\* arguments malformed together
PayloadShapes ==
    {<<id, Str("/live/cam1"), PlainArgs>> : id \in IdShapes}
    \cup {<<Str("abc123"), sp, PlainArgs>> : sp \in StreamPathShapes}
    \cup {<<Str("abc123"), Str("/live/cam1"), a>> : a \in ArgsShapes}
    \cup {<<x, x, x>> : x \in {Undefined, JSNull, Nested, Fun, Num("0")}}

CoreEvents == {"postConnect", "prePublish"}
CorePayloads == {<<Str("abc123"), Str("/live/cam1"), PlainArgs>>}

\* si.currentLoad(): currentLoad in thousandths of a percent
CpuLoads == {[currentLoad |-> 80004], [currentLoad |-> 80005]}
\* si.cpuTemperature(): main in degrees, null on hosts without a sensor
CpuTemps == {[main |-> NullTemp]}
\* si.mem(): used and total in MiB
Mems == {[used |-> 6800, total |-> 8000], [used |-> 6801, total |-> 8000]}
\* si.networkStats(): one record per interface, rates in KiB/s
NetworkStats == {<< >>}
\* si.fsSize(): one record per volume, sizes in MiB, use in thousandths of a percent
FsSizes == {<< [used |-> 51200, size |-> 102400, use |-> 50004] >>}

\* what the k-th awaited query of a cycle may resolve with
QueryResults(k) ==
    CASE k = 1 -> CpuLoads
      [] k = 2 -> CpuTemps
      [] k = 3 -> Mems
      [] k = 4 -> NetworkStats
      [] OTHER -> FsSizes

\* a host under steady high load
SoakResults(k) ==
    CASE k = 1 -> {[currentLoad |-> 81000]}
      [] k = 2 -> {[main |-> 45]}
      [] k = 3 -> {[used |-> 4000, total |-> 8000]}
      [] k = 4 -> {<< [rx_sec |-> 512, tx_sec |-> 256] >>}
      [] OTHER -> FsSizes

(***************************************************************************)
(* The callbacks.                                                          *)
(***************************************************************************)
\* lines 313-324: the startup log, the initial updateSystemStats() up to its
\* first await, and setInterval; the module's top level runs before any callback
Startup ==
    /\ ~booted
    /\ booted' = TRUE
    /\ connectionLogs' = addLog(connectionLogs, now, "system", "RTMP Server started",
                                StartupData)
    /\ connHistory' = Unshift(connHistory,
                              LogEntry(now, "system", "RTMP Server started",
                                       Sanitize(StartupData)))
    /\ now' = now + 1
    /\ inflight' = inflight \cup {[id |-> 1, got |-> <<>>]}
    /\ UNCHANGED <<performanceLogs, systemStats, raised, timers, events, clears,
                   perfHistory, alertsThisPeriod, publishedBy>>

\* lines 277-311: nms.on(ev, ...) called by the relay with (id, StreamPath, args)
Handler(ev, id, streamPath, args) ==
    /\ booted
    /\ IF SanitizeThrows(EventData(ev, id, streamPath, args))
       THEN /\ raised' = TRUE
            /\ UNCHANGED <<connectionLogs, connHistory, now>>
       ELSE /\ connectionLogs' = addLog(connectionLogs, now, EventType(ev),
                                        EventMessage(ev),
                                        EventData(ev, id, streamPath, args))
            /\ connHistory' = Unshift(connHistory,
                                 LogEntry(now, EventType(ev), EventMessage(ev),
                                          Sanitize(EventData(ev, id, streamPath, args))))
            /\ now' = now + 1
            /\ UNCHANGED raised
    /\ events' = events + 1
    /\ UNCHANGED <<performanceLogs, systemStats, booted, inflight, timers, clears,
                   perfHistory, alertsThisPeriod, publishedBy>>

\* line 324: the interval timer calls updateSystemStats, which runs to its first await
TimerFire ==
    /\ booted
    /\ inflight' = inflight \cup {[id |-> timers + 2, got |-> <<>>]}
    /\ timers' = timers + 1
    /\ alertsThisPeriod' = 0
    /\ UNCHANGED <<connectionLogs, performanceLogs, systemStats, booted, now, raised,
                   events, clears, connHistory, perfHistory, publishedBy>>

\* lines 139-146: one of the first four awaits of invocation c resolves with v,
\* and c runs on to its next await
QueryResolve(c, v) ==
    /\ c \in inflight
    /\ Len(c.got) < 4
    /\ inflight' = (inflight \ {c}) \cup {[c EXCEPT !.got = Append(@, v)]}
    /\ systemStats' = StatsAfterQuery(systemStats, Append(c.got, v), now)
    /\ UNCHANGED <<connectionLogs, performanceLogs, booted, now, raised, timers,
                   events, clears, connHistory, perfHistory, alertsThisPeriod,
                   publishedBy>>

\* lines 149-189: the fifth await of invocation c resolves with v; c assigns
\* systemStats, alerts when usage is high, and returns
SampleComplete(c, v) ==
    /\ c \in inflight
    /\ Len(c.got) = 4
    /\ inflight' = inflight \ {c}
    /\ systemStats' = StatsAfterQuery(systemStats, Append(c.got, v), now)
    /\ publishedBy' = c.id
    /\ IF HighUsage(systemStats')
       THEN /\ performanceLogs' = addPerformanceLog(performanceLogs, now + 1,
                                     "high_usage", AlertData(systemStats'))
            /\ perfHistory' = Unshift(perfHistory,
                                 PerformanceEntry(now + 1, "high_usage",
                                                  AlertData(systemStats')))
            /\ connectionLogs' = addLog(connectionLogs, now + 2, "system",
                                        AlertMessage(systemStats'), Obj(<<>>))
            /\ connHistory' = Unshift(connHistory,
                                 LogEntry(now + 2, "system", AlertMessage(systemStats'),
                                          Sanitize(Obj(<<>>))))
            /\ now' = now + 3
            /\ alertsThisPeriod' = alertsThisPeriod + 1
       ELSE /\ now' = now + 1
            /\ UNCHANGED <<performanceLogs, perfHistory, connectionLogs, connHistory,
                           alertsThisPeriod>>
    /\ UNCHANGED <<booted, raised, timers, events, clears>>

QueryFail_StopsTimer(c) ==
    /\ c \in inflight
    /\ inflight' = inflight \ {c}
    /\ systemStats' = StatsAfterFailure(systemStats)
    /\ timers' = timers + 1000
    /\ UNCHANGED <<connectionLogs, performanceLogs, booted, now, raised,
                   events, clears, connHistory, perfHistory, alertsThisPeriod,
                   publishedBy>>

QueryFail_LogsError(c) ==
    /\ c \in inflight
    /\ inflight' = inflight \ {c}
    /\ systemStats' = StatsAfterFailure(systemStats)
    /\ connectionLogs' = addLog(connectionLogs, now, "system",
                                "Error updating system stats", Obj(<<>>))
    /\ connHistory' = Unshift(connHistory,
                              LogEntry(now, "system", "Error updating system stats",
                                       Sanitize(Obj(<<>>))))
    /\ now' = now + 1
    /\ UNCHANGED <<performanceLogs, booted, raised, timers, events, clears,
                   perfHistory, alertsThisPeriod, publishedBy>>

\* lines 191-193: the await invocation c is suspended at rejects; the catch
\* block reports the error and c returns
QueryFail(c) ==
    /\ c \in inflight
    /\ inflight' = inflight \ {c}
    /\ systemStats' = StatsAfterFailure(systemStats)
    /\ UNCHANGED <<connectionLogs, performanceLogs, booted, now, raised, timers,
                   events, clears, connHistory, perfHistory, alertsThisPeriod,
                   publishedBy>>

ClearLogs_NoTruncate ==
    /\ booted
    /\ connectionLogs' = addLog(connectionLogs, now, "system", "Connection logs cleared",
                                Obj(<<>>))
    /\ connHistory' = Unshift(connHistory,
                              LogEntry(now, "system", "Connection logs cleared",
                                       Sanitize(Obj(<<>>))))
    /\ now' = now + 1
    /\ clears' = clears + 1
    /\ UNCHANGED <<performanceLogs, systemStats, booted, inflight, raised, timers,
                   events, perfHistory, alertsThisPeriod, publishedBy>>

ClearLogs_ClearsBoth ==
    /\ booted
    /\ connectionLogs' = addLog(<<>>, now, "system", "Connection logs cleared", Obj(<<>>))
    /\ connHistory' = <<LogEntry(now, "system", "Connection logs cleared",
                                 Sanitize(Obj(<<>>)))>>
    /\ performanceLogs' = <<>>
    /\ perfHistory' = <<>>
    /\ now' = now + 1
    /\ clears' = clears + 1
    /\ UNCHANGED <<systemStats, booted, inflight, raised, timers,
                   events, alertsThisPeriod, publishedBy>>

\* lines 224-228: DELETE /api/logs
ClearLogs ==
    /\ booted
    /\ connectionLogs' = addLog(<<>>, now, "system", "Connection logs cleared", Obj(<<>>))
    /\ connHistory' = <<LogEntry(now, "system", "Connection logs cleared",
                                 Sanitize(Obj(<<>>)))>>
    /\ now' = now + 1
    /\ clears' = clears + 1
    /\ UNCHANGED <<performanceLogs, systemStats, booted, inflight, raised, timers,
                   events, perfHistory, alertsThisPeriod, publishedBy>>

\* lines 215-221: the body sent
GetLogsBody ==
    [logs |-> connectionLogs, count |-> Len(connectionLogs),
     maxEntries |-> maxLogEntries]

\* lines 215-221: GET /api/logs: the request is served; no program state changes
GetLogs ==
    /\ booted
    /\ UNCHANGED vars

\* lines 231-238: the body sent
GetPerformanceBody ==
    [current |-> systemStats, history |-> performanceLogs]

\* lines 231-238: GET /api/performance (uptime and nodeMemory left out): the request is served; no program state changes
GetPerformance ==
    /\ booted
    /\ UNCHANGED vars

\* lines 241-246: the body sent
GetPerformanceLogsBody ==
    [logs |-> performanceLogs, count |-> Len(performanceLogs)]

\* lines 241-246: GET /api/performance/logs: the request is served; no program state changes
GetPerformanceLogs ==
    /\ booted
    /\ UNCHANGED vars

(***************************************************************************)
(* Specifications.                                                         *)
(***************************************************************************)
\* the state when the module's top level reaches line 313
Init ==
    /\ connectionLogs = <<>>
    /\ performanceLogs = <<>>
    /\ systemStats = InitStats
    /\ booted = FALSE
    /\ inflight = {}
    /\ now = 0
    /\ raised = FALSE
    /\ timers = 0
    /\ events = 0
    /\ clears = 0
    /\ connHistory = <<>>
    /\ perfHistory = <<>>
    /\ alertsThisPeriod = 0
    /\ publishedBy = 0

\* the callbacks of a running server, at most maxEv lifecycle events, maxTm
\* timer firings and maxCl clears in all
Serve(maxEv, maxTm, maxCl) ==
    \/ /\ events < maxEv
       /\ \E ev \in CoreEvents, p \in CorePayloads : Handler(ev, p[1], p[2], p[3])
    \/ /\ timers < maxTm
       /\ Cardinality(inflight) < MaxInFlight
       /\ TimerFire
    \/ \E c \in inflight : \E v \in QueryResults(Len(c.got) + 1) : QueryResolve(c, v)
    \/ \E c \in inflight : \E v \in QueryResults(5) : SampleComplete(c, v)
    \/ \E c \in inflight : QueryFail(c)
    \/ clears < maxCl /\ ClearLogs
    \/ GetLogs
    \/ GetPerformance
    \/ GetPerformanceLogs

Next == Startup \/ Serve(MaxEvents, MaxTimers, MaxClears)

Spec == Init /\ [][Next]_vars

(***************************************************************************)
(* SoakSpec: the server from its start on a host under steady high load,   *)
(* every sampling cycle alerting, long enough for both stores to fill and  *)
(* evict.                                                                  *)
(***************************************************************************)
SoakNext ==
    \/ Startup
    \/ /\ timers < SoakTimers
       /\ Cardinality(inflight) < SoakInFlight
       /\ TimerFire
    \/ \E c \in inflight : \E v \in SoakResults(Len(c.got) + 1) : QueryResolve(c, v)
    \/ \E c \in inflight : \E v \in SoakResults(5) : SampleComplete(c, v)

SoakSpec == Init /\ [][SoakNext]_vars

(***************************************************************************)
(* WarmSpec: the server some time into a run.  WarmInit is the state       *)
(* after the start, WarmCycles sampling cycles one after the other on the  *)
(* host of SoakSpec (each reads the clock three times), one DELETE         *)
(* /api/logs and then WarmEvents postConnect events: the performance log   *)
(* is full and the connection log is one entry short of full.              *)
(***************************************************************************)
WarmClearTime == 1 + 3 * WarmCycles

WarmStats ==
    LET r == [k \in 1..5 |-> CHOOSE v \in SoakResults(k) : TRUE]
    IN  [c \in 1..WarmCycles |-> MakeStats(r[1], r[2], r[3], r[4], r[5], 3 * c - 2)]

\* the alerts of cycles WarmCycles, WarmCycles - 1, ..., newest first
WarmPerfHistory ==
    [i \in 1..WarmCycles |->
        PerformanceEntry(3 * (WarmCycles - i + 1) - 1, "high_usage",
                         AlertData(WarmStats[WarmCycles - i + 1]))]

\* the events, newest first, then the entry of the clear
WarmConnHistory ==
    [i \in 1..(WarmEvents + 1) |->
        IF i <= WarmEvents
        THEN LogEntry(WarmClearTime + (WarmEvents - i + 1), EventType("postConnect"),
                      EventMessage("postConnect"),
                      Sanitize(EventData("postConnect", Str("abc123"), Undefined,
                                         PlainArgs)))
        ELSE LogEntry(WarmClearTime, "system", "Connection logs cleared",
                      Sanitize(Obj(<<>>)))]

WarmInit ==
    /\ connectionLogs = SubSeq(WarmConnHistory, 1, Min(WarmEvents + 1, maxLogEntries))
    /\ performanceLogs = SubSeq(WarmPerfHistory, 1, Min(WarmCycles, maxPerformanceLogs))
    /\ systemStats = WarmStats[WarmCycles]
    /\ booted = TRUE
    /\ inflight = {}
    /\ now = WarmClearTime + WarmEvents + 1
    /\ raised = FALSE
    /\ timers = WarmCycles - 1
    /\ events = WarmEvents
    /\ clears = 1
    /\ connHistory = WarmConnHistory
    /\ perfHistory = WarmPerfHistory
    /\ alertsThisPeriod = 1
    /\ publishedBy = WarmCycles

WarmNext == Serve(WarmEvents + MaxEvents + 1, WarmCycles - 1 + MaxTimers, 1 + MaxClears)

WarmSpec == WarmInit /\ [][WarmNext]_vars

(***************************************************************************)
(* SanitizeSpec: the started server handed lifecycle events of every       *)
(* payload shape.                                                          *)
(***************************************************************************)
SanitizeNext ==
    \/ Startup
    \/ /\ events < SanitizeEvents
       /\ \E ev \in LifecycleEvents, p \in PayloadShapes : Handler(ev, p[1], p[2], p[3])

SanitizeSpec == Init /\ [][SanitizeNext]_vars

(***************************************************************************)
(* ClearSpec: the started server, sampling cycles on the host of SoakSpec,  *)
(* lifecycle events, and DELETE /api/logs more than once.                  *)
(***************************************************************************)
ClearNext ==
    \/ Startup
    \/ /\ events < MaxEvents
       /\ \E ev \in CoreEvents, p \in CorePayloads : Handler(ev, p[1], p[2], p[3])
    \/ \E c \in inflight : \E v \in SoakResults(Len(c.got) + 1) : QueryResolve(c, v)
    \/ \E c \in inflight : \E v \in SoakResults(5) : SampleComplete(c, v)
    \/ /\ timers < MaxTimers
       /\ Cardinality(inflight) < MaxInFlight
       /\ TimerFire
    \/ clears < MaxClears + 1 /\ ClearLogs
    \/ GetLogs

ClearSpec == Init /\ [][ClearNext]_vars

(***************************************************************************)
(* LiveSpec: the sampler under fairness.  The timer of line 324 keeps      *)
(* firing, a pending query is eventually answered, and answers may be      *)
(* rejections in every cycle but the last: the provider's queries          *)
(* eventually succeed.                                                     *)
(***************************************************************************)
LiveTimer ==
    /\ timers < LiveTimers
    /\ Cardinality(inflight) < MaxInFlight
    /\ TimerFire

LiveResolve ==
    \E c \in inflight : \E v \in SoakResults(Len(c.got) + 1) : QueryResolve(c, v)

LiveComplete ==
    \E c \in inflight : \E v \in SoakResults(5) : SampleComplete(c, v)

LiveFail ==
    \E c \in inflight : c.id <= LiveTimers /\ QueryFail(c)

LiveNext == Startup \/ LiveTimer \/ LiveResolve \/ LiveComplete \/ LiveFail

LiveSpec ==
    /\ Init
    /\ [][LiveNext]_vars
    /\ WF_vars(Startup)
    /\ WF_vars(LiveTimer)
    /\ WF_vars(LiveResolve)
    /\ WF_vars(LiveComplete)

(***************************************************************************)
(* SessionSpec: publish and play sessions are opened and left open while   *)
(* the sampler runs on the host of SoakSpec.                               *)
(***************************************************************************)
OpenEvents == {"postPublish", "postPlay"}

SessionNext ==
    \/ Startup
    \/ /\ events < MaxEvents + 1
       /\ \E ev \in OpenEvents, p \in CorePayloads : Handler(ev, p[1], p[2], p[3])
    \/ /\ timers < MaxTimers
       /\ Cardinality(inflight) < MaxInFlight
       /\ TimerFire
    \/ \E c \in inflight : \E v \in SoakResults(Len(c.got) + 1) : QueryResolve(c, v)
    \/ \E c \in inflight : \E v \in SoakResults(5) : SampleComplete(c, v)
    \/ GetPerformance

SessionSpec == Init /\ [][SessionNext]_vars

(***************************************************************************)
(* Properties.                                                             *)
(***************************************************************************)
\* a value that holds nothing: not an object, an array or a function
Scalar(x) == x.t \in {"string", "number", "boolean", "undefined", "null"}

\* C1: in every observable state the connection log holds at most 50 entries
\* and the performance log at most 100.
C1_StoresBounded ==
    Len(connectionLogs) <= 50 /\ Len(performanceLogs) <= 100

\* both stores are full and each has evicted
C1_Witness ==
    /\ Len(connectionLogs) = 50 /\ Len(connHistory) > 50
    /\ Len(performanceLogs) = 100 /\ Len(perfHistory) > 100

\* C2: after N appends from empty a store of capacity C holds the min(N, C)
\* most recent entries, newest first: its first entry is the last appended,
\* the order is reverse insertion order, and what is gone is the oldest N - C.
C2_NewestKept ==
    /\ connectionLogs = SubSeq(connHistory, 1, Min(Len(connHistory), 50))
    /\ performanceLogs = SubSeq(perfHistory, 1, Min(Len(perfHistory), 100))
    /\ \A i \in 1..(Len(connectionLogs) - 1) :
          connectionLogs[i].timestamp > connectionLogs[i + 1].timestamp
    /\ \A i \in 1..(Len(performanceLogs) - 1) :
          performanceLogs[i].timestamp > performanceLogs[i + 1].timestamp

\* more than capacity has been appended to each store since it was empty
C2_Witness ==
    /\ Len(connHistory) > 50 /\ Len(connectionLogs) = 50
    /\ Len(perfHistory) > 100 /\ Len(performanceLogs) = 100

\* C3: at most one invocation of updateSystemStats is in flight; a timer
\* firing during a cycle starts no new one.
C3_AtMostOneInFlight == Cardinality(inflight) <= 1

\* C4: a cycle in which a query fails writes no field of systemStats: neither
\* its start, nor a resumption from one of its first four awaits, nor the
\* failure itself changes the snapshot.
C4_FailedCycleKeepsStats ==
    [][(\/ Startup
        \/ TimerFire
        \/ \E c \in inflight :
              \/ QueryFail(c)
              \/ \E v \in QueryResults(Len(c.got) + 1) : QueryResolve(c, v))
       => systemStats' = systemStats]_vars

\* the second cycle has failed and the snapshot is still the first cycle's
C4_Witness ==
    /\ timers = 1 /\ inflight = {} /\ publishedBy = 1
    /\ systemStats # InitStats

\* C5: the snapshot is replaced whole: any step either leaves systemStats as
\* it was or sets it to the snapshot built from the five results of one cycle.
C5_SnapshotReplacedWhole ==
    [][\/ systemStats' = systemStats
       \/ \E c \in inflight : \E v \in QueryResults(5) :
             /\ Len(c.got) = 4
             /\ systemStats' = MakeStats(c.got[1], c.got[2], c.got[3], c.got[4], v, now)]_vars

\* one cycle has published while another is suspended between two awaits
C5_Witness ==
    /\ publishedBy # 0
    /\ \E c \in inflight : Len(c.got) \in 1..4

\* C6: a successful cycle appends exactly one high_usage entry to the
\* performance log and one system entry to the connection log when
\* cpu.usage > 80 or memory.percent > 85, and leaves both stores alone otherwise.
C6_AlertExactlyWhenHigh ==
    [][\A c \in inflight : \A v \in QueryResults(5) :
          SampleComplete(c, v) =>
            IF systemStats'.cpu.usage > 8000 \/ systemStats'.memory.percent > 8500
            THEN /\ Len(performanceLogs') > 0 /\ Len(connectionLogs') > 0
                 /\ performanceLogs'[1].type = "high_usage"
                 /\ performanceLogs'[1].data.cpu = systemStats'.cpu.usage
                 /\ performanceLogs' =
                      SubSeq(<<performanceLogs'[1]>> \o performanceLogs, 1,
                             Min(Len(performanceLogs) + 1, 100))
                 /\ connectionLogs'[1].type = "system"
                 /\ connectionLogs' =
                      SubSeq(<<connectionLogs'[1]>> \o connectionLogs, 1,
                             Min(Len(connectionLogs) + 1, 50))
            ELSE /\ performanceLogs' = performanceLogs
                 /\ connectionLogs' = connectionLogs]_vars

\* both cycles are over: one alerted, and the one at cpu 80.00, memory 85.00
\* that published last did not
C6_Witness ==
    /\ timers = 1 /\ inflight = {} /\ publishedBy # 0
    /\ systemStats.cpu.usage = 8000 /\ systemStats.memory.percent = 8500
    /\ Len(performanceLogs) = 1
    /\ performanceLogs[1].data.cpu = 8001 /\ performanceLogs[1].data.memory = 8500

\* C7: between two consecutive appends of a high_usage entry the timer fires
\* at least once.
C7_OneAlertPerPeriod == alertsThisPeriod <= 1

\* C8: the data of every stored entry has no nested container: every
\* top-level value other than args is a scalar, args is a scalar or an
\* object, and every value inside args is a scalar.
C8_DataIsFlat ==
    \A i \in 1..Len(connectionLogs) :
        \A k \in 1..Len(connectionLogs[i].data.f) :
            LET key == connectionLogs[i].data.f[k][1]
                val == connectionLogs[i].data.f[k][2]
            IN  IF key = "args" /\ val.t = "object"
                THEN \A m \in 1..Len(val.f) : Scalar(val.f[m][2])
                ELSE Scalar(val)

\* C9: no lifecycle handler raises to the relay, whatever the shape of the
\* id, stream path and args it is given.
C9_HandlersNeverRaise == ~raised

\* a play handler has completed on a payload whose id, stream path and args
\* are all null
C9_Witness ==
    /\ events = 1 /\ ~raised /\ Len(connectionLogs) = 2
    /\ connectionLogs[1].type = "viewer"
    /\ connectionLogs[1].data = Obj(<<>>)

\* C10: every handler invocation, however interleaved with sampling steps,
\* clears and reads, appends its own entry and loses none: the log grows by
\* one up to 50, the handler's entry is first, and the entries behind it are
\* the ones that were there, in their order.
C10_HandlerAppendsNoneLost ==
    [][\A ev \in CoreEvents : \A p \in CorePayloads :
          Handler(ev, p[1], p[2], p[3]) =>
            /\ Len(connectionLogs') = Min(Len(connectionLogs) + 1, 50)
            /\ connectionLogs'[1].type = EventType(ev)
            /\ connectionLogs'[1].message = EventMessage(ev)
            /\ connectionLogs'[1].timestamp = now
            /\ \A i \in 2..Len(connectionLogs') :
                  connectionLogs'[i] = connectionLogs[i - 1]]_vars

\* two handlers have run on a log one short of full while a sampling cycle
\* was suspended: the log is full, their entries lead it in the order they ran
C10_Witness ==
    /\ events = WarmEvents + 2 /\ inflight # {}
    /\ Len(connectionLogs) = 50 /\ Len(connHistory) = 51
    /\ connectionLogs[1].type = "stream" /\ connectionLogs[2].type = "connection"
    /\ connectionLogs[1].timestamp > connectionLogs[2].timestamp

\* C11: DELETE /api/logs, whatever the log held, leaves the connection log
\* holding exactly one entry, the system entry noting the clear, stamped with
\* the time of that clear; a clear of an already-cleared log gives that
\* one-entry log again; and no clear changes the performance log or the
\* snapshot.
C11_ClearLeavesOneEntry ==
    [][ClearLogs =>
         /\ Len(connectionLogs') = 1
         /\ connectionLogs'[1].type = "system"
         /\ connectionLogs'[1].message = "Connection logs cleared"
         /\ connectionLogs'[1].data = Obj(<<>>)
         /\ connectionLogs'[1].timestamp = now
         /\ performanceLogs' = performanceLogs
         /\ systemStats' = systemStats]_vars

\* two clears one right after the other, the second on the one-entry log the
\* first left
C11_Witness ==
    /\ clears = 2 /\ now = 3
    /\ Len(connectionLogs) = 1
    /\ connectionLogs[1].message = "Connection logs cleared"
    /\ connectionLogs[1].timestamp = 2

\* C12: every invocation of one of the nine lifecycle handlers, whatever its
\* payload, appends exactly one entry to the connection log, tagged connection
\* for the connect events, stream for the publish events and viewer for the
\* play events, and that entry is first in the log when the handler returns.
C12_HandlerAppendsTagged ==
    [][\A ev \in LifecycleEvents : \A p \in PayloadShapes :
          Handler(ev, p[1], p[2], p[3]) =>
            /\ Len(connHistory') = Len(connHistory) + 1
            /\ connectionLogs' = <<connectionLogs'[1]>> \o connectionLogs
            /\ connectionLogs'[1] = connHistory'[1]
            /\ connectionLogs'[1].type =
                 CASE ev \in {"preConnect", "postConnect", "doneConnect"} -> "connection"
                   [] ev \in {"prePublish", "postPublish", "donePublish"} -> "stream"
                   [] ev \in {"prePlay", "postPlay", "donePlay"} -> "viewer"]_vars

\* donePlay has been handled: its viewer entry leads the log, ahead of the
\* startup entry
C12_Witness ==
    /\ events = 1 /\ Len(connectionLogs) = 2
    /\ connectionLogs[1].type = "viewer"
    /\ connectionLogs[1].message = "Viewer stopped watching"
    /\ connectionLogs[2].message = "RTMP Server started"

\* C13: for every payload carrying an id, the sanitized record's id is the
\* original value when that is a string and the placeholder '[object]'
\* otherwise; a non-string id (0, false, null, an object) is never copied as
\* it is.
C13_IdStringOrPlaceholder ==
    [][\A ev \in LifecycleEvents : \A p \in PayloadShapes :
          Handler(ev, p[1], p[2], p[3]) =>
            /\ HasKey(connectionLogs'[1].data, "id")
            /\ Get(connectionLogs'[1].data, "id") =
                 IF p[1].t = "string" THEN p[1] ELSE Str("[object]")]_vars

AllCyclesFailed == booted /\ inflight = {} /\ publishedBy = 0

\* C15: a failed sampling cycle is not fatal to sampling: when every cycle so
\* far has failed, the timer still fires, a later cycle starts, and once the
\* provider's queries succeed the snapshot is replaced by that cycle's.
C15_FailureNotFatal ==
    AllCyclesFailed ~>
        (/\ publishedBy > 0
         /\ timers >= 1
         /\ systemStats # InitStats
         /\ systemStats.timestamp >= 0)

\* the startup cycle and the first timer cycle have both failed
C15_Witness == AllCyclesFailed /\ timers = 1 /\ systemStats = InitStats

C17_SnapshotNeverBackwards == [][publishedBy' >= publishedBy]_vars

\* C18: a sampling cycle touches shared state only in its final step: its
\* start, every resumption from one of its first four awaits, and its failure
\* leave the snapshot, the connection log and the performance log as they
\* were (at the server's start the only change is the startup entry, logged
\* before the first cycle is called).
C18_CycleWritesOnlyAtEnd ==
    [][/\ (\/ TimerFire
           \/ \E c \in inflight :
                 \/ QueryFail(c)
                 \/ \E v \in QueryResults(Len(c.got) + 1) : QueryResolve(c, v))
          => /\ systemStats' = systemStats
             /\ connectionLogs' = connectionLogs
             /\ performanceLogs' = performanceLogs
       /\ Startup
          => /\ systemStats' = systemStats
             /\ performanceLogs' = performanceLogs
             /\ Len(connectionLogs') = 1
             /\ connectionLogs'[1].message = "RTMP Server started"]_vars

\* a cycle that read a CPU load above the threshold is awaiting its fifth
\* query, and the snapshot and both stores are as they were when it started
C18_Witness ==
    /\ \E c \in inflight : Len(c.got) = 4 /\ c.got[1].currentLoad = 80005
    /\ publishedBy = 0 /\ systemStats = InitStats
    /\ performanceLogs = <<>> /\ Len(connectionLogs) = 1

\* C19: the performance log and the snapshot are written only by sampling
\* cycles: a step that changes the snapshot is the completion of a cycle, a
\* step that changes the performance log is the completion of a cycle whose
\* cpu.usage is above 80 or memory.percent above 85, no handler, clear, read
\* or startup step changes either, and every entry of the performance log has
\* type high_usage.
C19_OnlySamplerWrites ==
    [][/\ systemStats' # systemStats =>
            \E c \in inflight : \E v \in QueryResults(5) : SampleComplete(c, v)
       /\ performanceLogs' # performanceLogs =>
            /\ \E c \in inflight : \E v \in QueryResults(5) : SampleComplete(c, v)
            /\ \/ systemStats'.cpu.usage > 8000
               \/ systemStats'.memory.percent > 8500
            /\ \A i \in 1..Len(performanceLogs') : performanceLogs'[i].type = "high_usage"
       /\ (systemStats' # systemStats \/ performanceLogs' # performanceLogs) =>
            /\ ~Startup
            /\ ~ClearLogs
            /\ \A ev \in CoreEvents : \A p \in CorePayloads :
                  ~Handler(ev, p[1], p[2], p[3])]_vars

\* after a cycle alerted, the connection log was cleared and then a handler
\* ran: the performance log still holds the alert and the snapshot the cycle's
C19_Witness ==
    /\ clears = 1 /\ events = 1
    /\ Len(performanceLogs) = 1 /\ Len(connectionLogs) = 2
    /\ connectionLogs[1].type \in {"connection", "stream"}
    /\ connectionLogs[2].message = "Connection logs cleared"
    /\ connectionLogs[2].timestamp > performanceLogs[1].timestamp
    /\ systemStats.timestamp = performanceLogs[1].timestamp - 1

\* C20: every high_usage entry carries the values of the snapshot published
\* in the same step: when an entry is appended to the performance log, its
\* cpu is the live snapshot's cpu.usage and its memory the live snapshot's
\* memory.percent, also while several sampling cycles are in flight.
C20_AlertMatchesSnapshot ==
    [][performanceLogs' # performanceLogs =>
         /\ Len(performanceLogs') > 0
         /\ performanceLogs'[1].type = "high_usage"
         /\ performanceLogs'[1].data.cpu = systemStats'.cpu.usage
         /\ performanceLogs'[1].data.memory = systemStats'.memory.percent
         /\ publishedBy' \in {c.id : c \in inflight}
         /\ systemStats'.timestamp = now]_vars

\* a cycle has just published and alerted while another cycle, which already
\* holds a different CPU reading, is still in flight
C20_Witness ==
    /\ Len(performanceLogs) >= 1
    /\ performanceLogs[1].timestamp = systemStats.timestamp + 1
    /\ now = performanceLogs[1].timestamp + 2
    /\ performanceLogs[1].data.cpu = systemStats.cpu.usage
    /\ performanceLogs[1].data.memory = systemStats.memory.percent
    /\ \E c \in inflight :
          /\ Len(c.got) >= 3
          /\ Round(c.got[1].currentLoad, 10) # systemStats.cpu.usage

====
